---- MODULE Spec2Model ----
(***************************************************************************)
(* A model of the request-to-response pipeline of bin/server.js            *)
(* (class StaticServer) and of mime.js.                                    *)
(*                                                                         *)
(* Strings are sequences of one-character strings, so that indexOf,        *)
(* substring, the regular expressions, path.normalize, path.join and       *)
(* path.extname are computed character by character as the code (and the   *)
(* node library it calls) computes them.                                   *)
(***************************************************************************)
EXTENDS Integers, Sequences, FiniteSets, TLC

(***************************************************************************)
(* Bounds of the model.                                                    *)
(***************************************************************************)
\* number of request slots (requests that may be in flight together)
NumReqs == 2
\* file sizes range over 0..MaxSize
MaxSize == 2
\* a Range header is built from at most MaxRangeLen pieces ("bytes=", "-", a digit)
MaxRangeLen == 4
\* the digits used in Range headers are 0..MaxDigit
MaxDigit == 2
\* a request URL is "/" followed by at most MaxUrlLen pieces
MaxUrlLen == 5
\* an Accept-Encoding header is built from at most MaxEncLen pieces
MaxEncLen == 3

(***************************************************************************)
(* Strings.                                                                *)
(***************************************************************************)
Reqs == 1..NumReqs

None == <<>>
Some(v) == <<v>>

\* JavaScript truthiness of a header value: undefined and '' are falsy
Truthy(h) == h # None /\ h[1] # <<>>

DigitChars == <<"0", "1", "2", "3", "4", "5", "6", "7", "8", "9",
                "a", "b", "c", "d", "e", "f">>

IsDigit(c) == \E i \in 1..10 : DigitChars[i] = c

DigitVal(c) == (CHOOSE i \in 1..10 : DigitChars[i] = c) - 1

\* [A-Za-z0-9_], restricted to the characters the model's strings use
WordChars ==
    {DigitChars[i] : i \in 1..16} \cup
    {"g", "h", "i", "j", "k", "l", "m", "n", "o", "p", "q", "r", "s", "t", "u", "v",
     "w", "x", "y", "z", "_"}

IsWordChar(c) == c \in WordChars

RECURSIVE Concat(_)
Concat(ss) == IF ss = <<>> THEN <<>> ELSE Head(ss) \o Concat(Tail(ss))

\* all concatenations of at most n pieces drawn from Pieces
Pieced(Pieces, n) == {Concat(f) : f \in UNION {[1..k -> Pieces] : k \in 0..n}}

\* the least and the greatest element of a non-empty set of integers
Least(S) == CHOOSE i \in S : \A j \in S : i <= j
Greatest(S) == CHOOSE i \in S : \A j \in S : j <= i

\* the 0-based index of the first of the 1-based positions hits, or -1
FirstIndex(hits) == IF hits = {} THEN -1 ELSE Least(hits) - 1

\* String.prototype.indexOf: 0-based index of the first occurrence, or -1
IndexOf(s, pat) ==
    FirstIndex({i \in 1..(Len(s) - Len(pat) + 1) : SubSeq(s, i, i + Len(pat) - 1) = pat})

\* String.prototype.substring(from), 0-based
Substring(s, from) == SubSeq(s, from + 1, Len(s))

\* Number.prototype.toString(radix) of a non-negative integer
RECURSIVE Radix(_, _)
Radix(n, base) ==
    IF n < base THEN <<DigitChars[n + 1]>>
    ELSE Radix(n \div base, base) \o <<DigitChars[(n % base) + 1]>>

(***************************************************************************)
(* JavaScript numbers: an integer or NaN.                                  *)
(***************************************************************************)
Num(v) == [nan |-> FALSE, v |-> v]
NaN == [nan |-> TRUE, v |-> 0]
isNaN(x) == x.nan
\* x > y is false whenever an operand is NaN
Gt(x, y) == ~x.nan /\ ~y.nan /\ x.v > y.v

\* the text a template literal puts for a number
NumStr(x) ==
    IF x.nan THEN <<"N", "a", "N">>
    ELSE IF x.v < 0 THEN <<"-">> \o Radix(-x.v, 10)
    ELSE Radix(x.v, 10)

\* parseInt of a run of decimal digits; NaN for the empty run
RECURSIVE DigitsValue(_)
DigitsValue(ds) ==
    IF ds = <<>> THEN 0
    ELSE 10 * DigitsValue(SubSeq(ds, 1, Len(ds) - 1)) + DigitVal(ds[Len(ds)])

parseInt(ds) == IF ds = <<>> THEN NaN ELSE Num(DigitsValue(ds))

\* the longest run of digits of s that starts at position i (1-based)
RECURSIVE DigitRun(_, _)
DigitRun(s, i) ==
    IF i <= Len(s) /\ IsDigit(s[i]) THEN <<s[i]>> \o DigitRun(s, i + 1) ELSE <<>>

(***************************************************************************)
(* The string constants of the code.                                       *)
(***************************************************************************)
slash == <<"/">>
dot == <<".">>
dotdot == <<".", ".">>
static == <<"s", "t", "a", "t", "i", "c">>
articleSlash == <<"a", "r", "t", "i", "c", "l", "e", "/">>
homepage == <<"h", "o", "m", "e", "p", "a", "g", "e">>
bytesEq == <<"b", "y", "t", "e", "s", "=">>
gzip == <<"g", "z", "i", "p">>
deflate == <<"d", "e", "f", "l", "a", "t", "e">>

(***************************************************************************)
(* node's path module (posix).                                             *)
(***************************************************************************)
\* the pieces of s between the '/' characters
RECURSIVE Split(_)
SplitAt(s, i) ==
    IF i = -1 THEN <<s>> ELSE <<SubSeq(s, 1, i)>> \o Split(Substring(s, i + 1))

Split(s) == SplitAt(s, IndexOf(s, slash))

\* normalizeString: drops '' and '.', resolves '..' against the segment before it
\* one segment seg met with the segments acc kept so far
normalizeSeg(seg, acc, allowAboveRoot) ==
    IF seg = <<>> \/ seg = dot THEN acc
    ELSE IF seg = dotdot THEN
        IF acc # <<>> /\ acc[Len(acc)] # dotdot THEN SubSeq(acc, 1, Len(acc) - 1)
        ELSE IF allowAboveRoot THEN Append(acc, seg)
        ELSE acc
    ELSE Append(acc, seg)

RECURSIVE normalizeSegs(_, _, _)
normalizeSegs(segs, acc, allowAboveRoot) ==
    IF segs = <<>> THEN acc
    ELSE normalizeSegs(Tail(segs), normalizeSeg(Head(segs), acc, allowAboveRoot),
                       allowAboveRoot)

RECURSIVE JoinSegs(_)
JoinSegs(segs) ==
    IF segs = <<>> THEN <<>>
    ELSE IF Len(segs) = 1 THEN segs[1]
    ELSE segs[1] \o slash \o JoinSegs(Tail(segs))

\* path.normalize, given the normalized segments of the path
normalized(body, isAbsolute, trailingSeparator) ==
    IF body = <<>>
    THEN IF isAbsolute THEN slash
         ELSE IF trailingSeparator THEN dot \o slash ELSE dot
    ELSE (IF isAbsolute THEN slash ELSE <<>>) \o body
         \o (IF trailingSeparator THEN slash ELSE <<>>)

\* path.normalize
normalize(p) ==
    IF p = <<>> THEN dot
    ELSE normalized(JoinSegs(normalizeSegs(Split(p), <<>>, p[1] # "/")),
                    p[1] = "/", p[Len(p)] = "/")

\* path.join of two strings
join(a, b) ==
    IF a = <<>> /\ b = <<>> THEN dot
    ELSE IF a = <<>> THEN normalize(b)
    ELSE IF b = <<>> THEN normalize(a)
    ELSE normalize(a \o slash \o b)

\* the last of the segments segs that is not empty, or ''
LastSeg(segs, full) == IF full = {} THEN <<>> ELSE segs[Greatest(full)]

LastFull(segs) == LastSeg(segs, {i \in 1..Len(segs) : segs[i] # <<>>})

\* the last path component, trailing separators ignored
basename(p) == LastFull(Split(p))

\* the text of b from position last on, '' when last is the first position
ExtFrom(b, last) == IF last = 1 THEN <<>> ELSE SubSeq(b, last, Len(b))

\* the extension of the component b, whose '.' are at the positions dots
ExtOf(b, dots) == IF dots = {} \/ b = dotdot THEN <<>> ELSE ExtFrom(b, Greatest(dots))

Dots(b) == {i \in 1..Len(b) : b[i] = "."}

ExtOfBase(b) == ExtOf(b, Dots(b))

\* path.extname: from the last '.' of the last component, '' when there is
\* none, when it is the component's first character, or for '..'
extname(p) == ExtOfBase(basename(p))

hasTrailingSlash(u) == u # <<>> /\ u[Len(u)] = "/"

\* the text of u before the first of the positions cut
Before(u, cut) == IF cut = {} THEN u ELSE SubSeq(u, 1, Least(cut) - 1)

\* url.parse(u).pathname: the URL up to its query or fragment
pathnameOf(u) == Before(u, {i \in 1..Len(u) : u[i] \in {"?", "#"}})

(***************************************************************************)
(* mime.js                                                                 *)
(***************************************************************************)
mimeTypes ==
    [ext \in {<<"c", "s", "s">>, <<"g", "i", "f">>, <<"h", "t", "m", "l">>,
              <<"i", "c", "o">>, <<"j", "p", "e", "g">>, <<"p", "n", "g">>,
              <<"j", "p", "g">>, <<"t", "x", "t">>, <<"j", "s", "o", "n">>,
              <<"j", "s">>} |->
        CASE ext = <<"c", "s", "s">> -> "text/css"
          [] ext = <<"g", "i", "f">> -> "image/gif"
          [] ext = <<"h", "t", "m", "l">> -> "text/html"
          [] ext = <<"i", "c", "o">> -> "image/x-icon"
          [] ext = <<"j", "p", "e", "g">> -> "image/jpeg"
          [] ext = <<"p", "n", "g">> -> "image/png"
          [] ext = <<"j", "p", "g">> -> "image/jpg"
          [] ext = <<"t", "x", "t">> -> "text/plain"
          [] ext = <<"j", "s", "o", "n">> -> "application/json"
          [] ext = <<"j", "s">> -> "text/javascript"]

\* ext.split('.').pop(): the extension without its '.'
popExt(ext) == IF ext = <<>> THEN <<>> ELSE Substring(ext, 1)

\* mimeTypes[ext] || mimeTypes['txt']
typeOf(ext) ==
    IF ext \in DOMAIN mimeTypes THEN mimeTypes[ext] ELSE mimeTypes[<<"t", "x", "t">>]

lookup(pathName) == typeOf(popExt(extname(pathName)))


(***************************************************************************)
(* The configuration: the constructor's fields.  The four toggles are the  *)
(* yargs options c, e, t, l; a configuration is a record of them.          *)
(***************************************************************************)
root == <<"w", "w", "w">>
indexPage == <<"i", "n", "d", "e", "x", ".", "h", "t", "m", "l">>
maxAge == 5
\* the extensions config.zipMatch matches
zipMatch == {<<".", "c", "s", "s">>, <<".", "j", "s">>, <<".", "h", "t", "m", "l">>}

Configs ==
    [enableCacheControl : BOOLEAN, enableExpires : BOOLEAN,
     enableETag : BOOLEAN, enableLastModified : BOOLEAN]

AllOn ==
    [enableCacheControl |-> TRUE, enableExpires |-> TRUE,
     enableETag |-> TRUE, enableLastModified |-> TRUE]

(***************************************************************************)
(* The filesystem collaborator: fs.stat, fs.existsSync, fs.readdir.        *)
(* A filesystem maps the paths below to an entry; kind "none" is a path    *)
(* that does not exist, kind "dangling" a link whose target does not.      *)
(***************************************************************************)
fJs == <<"f", ".", "j", "s">>
aPng == <<"a", ".", "p", "n", "g">>
dirD == <<"d">>
lnk == <<"l">>

pRoot == root
pIndex == root \o slash \o indexPage
pStatic == root \o slash \o static
pFile == root \o slash \o static \o slash \o fJs
pDir == root \o slash \o dirD
pPng == root \o slash \o dirD \o slash \o aPng
pLnk == root \o slash \o dirD \o slash \o lnk

FsPaths == {pRoot, pIndex, pStatic, pFile, pDir, pPng, pLnk}

NoEntry == [kind |-> "none", size |-> 0, mtime |-> 0, readable |-> FALSE]
DirEntry == [kind |-> "dir", size |-> 0, mtime |-> 0, readable |-> TRUE]
FileEntry(size, mtime, readable) ==
    [kind |-> "file", size |-> size, mtime |-> mtime, readable |-> readable]
Dangling == [kind |-> "dangling", size |-> 0, mtime |-> 0, readable |-> FALSE]

\* a path without its trailing separators
RECURSIVE StripSlashes(_)
StripSlashes(p) ==
    IF Len(p) > 1 /\ p[Len(p)] = "/" THEN StripSlashes(SubSeq(p, 1, Len(p) - 1)) ELSE p

\* fs.stat: None for an error, else the entry.  A path that ends in '/'
\* names a directory only.
entryAt(f, q) == IF q \in FsPaths THEN f[q] ELSE NoEntry

statEntry(e, p) ==
    IF e.kind \in {"none", "dangling"} THEN None
    ELSE IF e.kind = "file" /\ hasTrailingSlash(p) THEN None
    ELSE Some(e)

stat(f, p) == statEntry(entryAt(f, StripSlashes(p)), p)

existsSync(f, p) == stat(f, p) # None

\* the names fs.readdir reports for a directory
children(f, q) ==
    {b \in {fJs, aPng, dirD, lnk, static, indexPage} :
        entryAt(f, q \o slash \o b).kind # "none"}

readdir(f, p) == children(f, StripSlashes(p))

(***************************************************************************)
(* Responses and streams.                                                  *)
(***************************************************************************)
NoHeaders ==
    [contentType |-> None, acceptRanges |-> None, contentRange |-> None,
     contentEncoding |-> None, lastModified |-> None, cacheControl |-> None,
     etag |-> None, expires |-> None, location |-> None]

\* a response as http.createServer hands it to the handler
NewRes == [statusCode |-> 200, headers |-> NoHeaders, ended |-> FALSE, body |-> <<>>]

setHeader(res, name, value) ==
    [res EXCEPT !.headers = [@ EXCEPT ![name] = Some(value)]]

\* res.end(body)
end(res, body) == [res EXCEPT !.ended = TRUE, !.body = body]

NoReq ==
    [url |-> <<>>, sent |-> <<>>, range |-> None, acceptEncoding |-> None,
     ifNoneMatch |-> None, ifModifiedSince |-> None]

\* what a handler leaves behind: the response, the stream it piped (if any),
\* whether it threw, and the callback it registered with the path it works on
Outcome(res, stream, threw, next) ==
    [res |-> res, stream |-> stream, threw |-> threw, next |-> next, path |-> <<>>,
     range |-> None]

Threw(res) == Outcome(res, None, TRUE, "aborted")

\* a handler that returns after registering the callback `next` on `path`
Pending(res, next, path) == [Outcome(res, None, FALSE, next) EXCEPT !.path = path]

(***************************************************************************)
(* Range Calculator and Content Transfer Engine.                           *)
(***************************************************************************)
\* the regular expression /bytes=([0-9]*)-([0-9]*)/ matches at position i:
\* 'bytes=', the longest run of digits, then '-'
hasDash(rangeText, at) == at <= Len(rangeText) /\ rangeText[at] = "-"

fitsAt(rangeText, i) ==
    /\ SubSeq(rangeText, i, i + 5) = bytesEq
    /\ hasDash(rangeText, i + 6 + Len(DigitRun(rangeText, i + 6)))

\* the two groups of the match at position i, whose first group is g1
groupsFrom(rangeText, i, g1) == <<g1, DigitRun(rangeText, i + 7 + Len(g1))>>

groupsAt(rangeText, i) == groupsFrom(rangeText, i, DigitRun(rangeText, i + 6))

matchAmong(rangeText, hits) ==
    IF hits = {} THEN None ELSE Some(groupsAt(rangeText, Least(hits)))

\* rangeText.match(...): None for null, else the groups of the leftmost match
rangeMatch(rangeText) ==
    matchAmong(rangeText, {i \in 1..(Len(rangeText) - 5) : fitsAt(rangeText, i)})

\* resolveRange with the suffix form taken as an offset from the last byte
resolveRangeFromLast(start, end_, totalSize) ==
    IF isNaN(start) /\ ~isNaN(end_)
    THEN [threw |-> FALSE, start |-> Num(totalSize - 1 - end_.v),
          end |-> Num(totalSize - 1)]
    ELSE IF ~isNaN(start) /\ isNaN(end_)
    THEN [threw |-> FALSE, start |-> start, end |-> Num(totalSize - 1)]
    ELSE [threw |-> FALSE, start |-> start, end |-> end_]

\* the if / else if of getRange on the two parsed numbers
resolveRange(start, end_, totalSize) ==
    IF isNaN(start) /\ ~isNaN(end_)
    THEN [threw |-> FALSE, start |-> Num(totalSize - end_.v), end |-> Num(totalSize - 1)]
    ELSE IF ~isNaN(start) /\ isNaN(end_)
    THEN [threw |-> FALSE, start |-> start, end |-> Num(totalSize - 1)]
    ELSE [threw |-> FALSE, start |-> start, end |-> end_]

\* threw: matchResults is null and matchResults[1] raises a TypeError
rangeOfMatch(matchResults, totalSize) ==
    IF matchResults = None THEN [threw |-> TRUE, start |-> NaN, end |-> NaN]
    ELSE resolveRange(parseInt(matchResults[1][1]), parseInt(matchResults[1][2]),
                      totalSize)

getRange(rangeText, totalSize) == rangeOfMatch(rangeMatch(rangeText), totalSize)

WholeFile(pathName) ==
    [path |-> pathName, ranged |-> FALSE, start |-> Num(0), end |-> Num(0),
     enc |-> "identity"]

Ranged(pathName, start, end_) ==
    [path |-> pathName, ranged |-> TRUE, start |-> start, end |-> end_,
     enc |-> "identity"]

\* start and end options fs.createReadStream accepts in every version of node
ValidOptions(start, end_) ==
    ~isNaN(start) /\ ~isNaN(end_) /\ start.v >= 0 /\ start.v <= end_.v

\* fs.createReadStream(pathName, {start, end}): the stream, or None when the
\* call throws.  Options that are NaN or negative are rejected with a throw
\* by some versions of node and accepted by others.
createReadStream(pathName, start, end_) ==
    {Some(Ranged(pathName, start, end_))}
        \cup (IF ValidOptions(start, end_) THEN {} ELSE {None})

contentRangeOf(start, end_, totalSize) ==
    <<"b", "y", "t", "e", "s", " ">> \o NumStr(start) \o <<"-">> \o NumStr(end_)
        \o slash \o NumStr(Num(totalSize))

contentRangeUnsatisfied(totalSize) ==
    <<"b", "y", "t", "e", "s", " ", "*">> \o slash \o NumStr(Num(totalSize))

\* the condition of the if of rangeHandler
unsatisfiable(range, totalSize) ==
    \/ Gt(range.start, range.end)
    \/ Gt(range.start, Num(totalSize))
    \/ Gt(range.end, Num(totalSize))

\* the first branch of rangeHandler: 416, the response ended, null returned
rangeRejected(totalSize, res) ==
    Outcome(end(setHeader([res EXCEPT !.statusCode = 416], "contentRange",
                          contentRangeUnsatisfied(totalSize)), <<>>),
            None, FALSE, "done")

\* rangeAccepted with the end of the stream taken as exclusive
rangeAcceptedExclusive(range, pathName, res206) ==
    {IF s = None THEN Threw(res206) ELSE Outcome(res206, s, FALSE, "streaming") :
        s \in createReadStream(pathName, range.start, Num(range.end.v - 1))}

\* the second branch of rangeHandler: 206 and the stream, or the throw of
\* fs.createReadStream; res206 is the response with its status and header
rangeAccepted(range, pathName, res206) ==
    {IF s = None THEN Threw(res206) ELSE Outcome(res206, s, FALSE, "streaming") :
        s \in createReadStream(pathName, range.start, range.end)}

\* rangeHandler once getRange returned range; `range` keeps that local
rangeHandled(range, pathName, totalSize, res) ==
    IF range.threw THEN {Threw(res)}
    ELSE {[o EXCEPT !.range = Some([start |-> range.start, end |-> range.end])] :
            o \in IF unsatisfiable(range, totalSize)
                  THEN {rangeRejected(totalSize, res)}
                  ELSE rangeAccepted(range, pathName,
                           setHeader([res EXCEPT !.statusCode = 206], "contentRange",
                               contentRangeOf(range.start, range.end, totalSize)))}

\* the outcomes of rangeHandler: a 416 that ends the response, a 206 with
\* its stream, or a throw
rangeHandler(pathName, rangeText, totalSize, res) ==
    rangeHandled(getRange(rangeText, totalSize), pathName, totalSize, res)

shouldCompress(pathName) == extname(pathName) \in zipMatch

\* text.match(/\bword\b/), for a word of word characters
wordMatch(text, word) ==
    \E i \in 1..(Len(text) - Len(word) + 1) :
        /\ SubSeq(text, i, i + Len(word) - 1) = word
        /\ (i = 1 \/ ~IsWordChar(text[i - 1]))
        /\ (i + Len(word) - 1 = Len(text) \/ ~IsWordChar(text[i + Len(word)]))

\* compressed with deflate tested before gzip
compressedDeflateFirst(readStream, res, truthy, either, gz, df) ==
    IF ~truthy \/ ~either THEN [stream |-> Some(readStream), res |-> res]
    ELSE IF df
    THEN [stream |-> Some([readStream EXCEPT !.enc = "deflate"]),
          res |-> setHeader(res, "contentEncoding", "deflate")]
    ELSE IF gz
    THEN [stream |-> Some([readStream EXCEPT !.enc = "gzip"]),
          res |-> setHeader(res, "contentEncoding", "gzip")]
    ELSE [stream |-> None, res |-> res]

\* the branches of compressHandler, given what the three regular
\* expressions matched: the stream returned (None for undefined) and the response
compressed(readStream, res, truthy, either, gz, df) ==
    IF ~truthy \/ ~either THEN [stream |-> Some(readStream), res |-> res]
    ELSE IF gz
    THEN [stream |-> Some([readStream EXCEPT !.enc = "gzip"]),
          res |-> setHeader(res, "contentEncoding", "gzip")]
    ELSE IF df
    THEN [stream |-> Some([readStream EXCEPT !.enc = "deflate"]),
          res |-> setHeader(res, "contentEncoding", "deflate")]
    ELSE [stream |-> None, res |-> res]

\* the text of a header, '' when the header is absent
textOf(h) == IF h = None THEN <<>> ELSE h[1]

compressHandler(readStream, req, res) ==
    compressed(readStream, res, Truthy(req.acceptEncoding),
               wordMatch(textOf(req.acceptEncoding), gzip)
                   \/ wordMatch(textOf(req.acceptEncoding), deflate),
               wordMatch(textOf(req.acceptEncoding), gzip),
               wordMatch(textOf(req.acceptEncoding), deflate))

\* readStream.pipe(res) on what compressHandler returned: undefined.pipe throws
piped(o, c) ==
    IF c.stream = None THEN [Threw(c.res) EXCEPT !.range = o.range]
    ELSE [o EXCEPT !.res = c.res, !.stream = c.stream]

\* the part of respondFile after the stream is opened: compress, then pipe
pipeFile(o, pathName, req) ==
    IF o.threw \/ o.stream = None THEN o
    ELSE IF shouldCompress(pathName)
    THEN piped(o, compressHandler(o.stream[1], req, o.res))
    ELSE o

\* respondFile after its two setHeader calls, which gave the response typed;
\* st is None when the caller passes null for stat, and stat.size then throws
openFile(st, pathName, req, typed) ==
    IF Truthy(req.range)
    THEN IF st = None THEN {Threw(typed)}
         ELSE rangeHandler(pathName, req.range[1], st[1].size, typed)
    ELSE {Outcome(typed, Some(WholeFile(pathName)), FALSE, "streaming")}

respondFile(st, pathName, req, res) ==
    {pipeFile(o, pathName, req) :
        o \in openFile(st, pathName, req,
                       setHeader(setHeader(res, "contentType", lookup(pathName)),
                                 "acceptRanges", "bytes"))}

(***************************************************************************)
(* Freshness Evaluator.                                                    *)
(***************************************************************************)
\* Date.prototype.toUTCString has a resolution of one second: the text is
\* modelled as the whole seconds of the time, followed by " GMT"
toUTCString(ms) == Radix(ms \div 1000, 10) \o <<" ", "G", "M", "T">>

generateETag(st) ==
    <<"W", "/", "\"">> \o Radix(st.size, 10) \o <<"-">> \o Radix(st.mtime, 16) \o <<"\"">>

setLastModified(st, res, cfg) ==
    IF cfg.enableLastModified
    THEN setHeader(res, "lastModified", toUTCString(st.mtime)) ELSE res

setCacheControl(res, cfg) ==
    IF cfg.enableCacheControl
    THEN setHeader(res, "cacheControl", <<"public, max-age=">> \o Radix(maxAge, 10))
    ELSE res

setETag(st, res, cfg) ==
    IF cfg.enableETag THEN setHeader(res, "etag", generateETag(st)) ELSE res

setExpires(res, cfg, now) ==
    IF cfg.enableExpires
    THEN setHeader(res, "expires", toUTCString(now + maxAge * 1000)) ELSE res

setFreshHeaders(st, res, cfg, now) ==
    setExpires(setETag(st, setCacheControl(setLastModified(st, res, cfg), cfg), cfg),
               cfg, now)

\* isFresh with a match of either validator taken as enough
isFreshEither(reqHeaders, resHeaders) ==
    \/ Truthy(reqHeaders.ifNoneMatch) /\ reqHeaders.ifNoneMatch = resHeaders.etag
    \/ /\ Truthy(reqHeaders.ifModifiedSince)
       /\ reqHeaders.ifModifiedSince = resHeaders.lastModified

\* a header the response does not carry reads as undefined and equals no string
isFresh(reqHeaders, resHeaders) ==
    IF ~Truthy(reqHeaders.ifNoneMatch) /\ ~Truthy(reqHeaders.ifModifiedSince) THEN FALSE
    ELSE IF Truthy(reqHeaders.ifNoneMatch) /\ reqHeaders.ifNoneMatch # resHeaders.etag
    THEN FALSE
    ELSE IF /\ Truthy(reqHeaders.ifModifiedSince)
            /\ reqHeaders.ifModifiedSince # resHeaders.lastModified
    THEN FALSE
    ELSE TRUE

respondNotModified(res) ==
    Outcome(end([res EXCEPT !.statusCode = 304], <<>>), None, FALSE, "done")

\* res.end(err) is given an Error object: http's end() accepts a string or a
\* Buffer only and throws a TypeError
respondError(res) == Threw([res EXCEPT !.statusCode = 500])

\* respond(): registers the fs.stat callback
respond(pathName, req, res) == Pending(res, "respondStat", pathName)

\* the success branch of the callback, with the freshness headers set
respondChecked(st, pathName, req, fresh) ==
    IF isFresh(req, fresh.headers) THEN {respondNotModified(fresh)}
    ELSE respondFile(st, pathName, req, fresh)

\* the callback fs.stat calls in respond(), st being what fs.stat reports
respondStatted(st, cfg, now, pathName, req, res) ==
    IF st # None
    THEN respondChecked(st, pathName, req, setFreshHeaders(st[1], res, cfg, now))
    ELSE {respondError(res)}

respondStat(f, cfg, now, pathName, req, res) ==
    respondStatted(stat(f, pathName), cfg, now, pathName, req, res)

(***************************************************************************)
(* Path Router.                                                            *)
(***************************************************************************)
respondNotFound(req, res) ==
    Outcome(end(setHeader([res EXCEPT !.statusCode = 400], "contentType", "text/html"),
                <<[kind |-> "notFound", url |-> req.url]>>),
            None, FALSE, "done")

redirectTo(location, res) ==
    Outcome(end(setHeader(setHeader([res EXCEPT !.statusCode = 301],
                                    "location", location),
                          "contentType", "text/html"),
                <<[kind |-> "redirect", to |-> location]>>),
            None, FALSE, "done")

respondRedirect(req, res) == redirectTo(req.url \o slash, res)

directoryWith(f, indexPagePath, pathName, req, res) ==
    IF existsSync(f, indexPagePath) THEN respond(indexPagePath, req, res)
    ELSE Pending(res, "readdir", pathName)

\* respondDirectory up to the callback it registers
respondDirectory(f, pathName, req, res) ==
    directoryWith(f, join(pathName, indexPage), pathName, req, res)

\* the href and the text of the link the listing shows for an entry
linkOf(st, requestPath, file) ==
    IF st[1].kind = "dir"
    THEN <<join(join(requestPath, file), slash), join(file, slash)>>
    ELSE <<join(requestPath, file), file>>

\* the listing of files; fs.statSync throws on an entry it cannot stat
listing(f, files, pathName, requestPath, res) ==
    IF \E file \in files : stat(f, join(pathName, file)) = None THEN Threw(res)
    ELSE Outcome(end(setHeader(res, "contentType", "text/html"),
                     <<[kind |-> "listing", of |-> requestPath,
                        links |-> {linkOf(stat(f, join(pathName, file)),
                                          requestPath, file) : file \in files}]>>),
                 None, FALSE, "done")

\* the callback fs.readdir calls in respondDirectory; st is the directory's
\* state now.  On an error res.end(err) is given an Error object and throws.
readdirOn(st, f, pathName, req, res) ==
    IF st = None \/ st[1].kind # "dir" THEN Threw([res EXCEPT !.statusCode = 500])
    ELSE listing(f, readdir(f, pathName), pathName, pathnameOf(req.url), res)

readdirDone(f, pathName, req, res) == readdirOn(stat(f, pathName), f, pathName, req, res)

isSpa(pathName) == IndexOf(pathName, articleSlash) >= 0 \/ IndexOf(pathName, homepage) >= 0

\* routeHandler up to the callback it registers
routeHandler(pathName, req, res) ==
    IF isSpa(pathName)
    THEN respondFile(None, join(root, indexPage), req, res)
    ELSE {Pending(res, "routeStat", pathName)}

\* the callback fs.stat calls in routeHandler, st being what fs.stat reports
routeStatted(st, f, pathName, req, res) ==
    IF st # None
    THEN IF hasTrailingSlash(pathnameOf(req.url)) /\ st[1].kind = "dir"
         THEN respondDirectory(f, pathName, req, res)
         ELSE IF st[1].kind = "dir" THEN respondRedirect(req, res)
         ELSE respond(pathName, req, res)
    ELSE respondNotFound(req, res)

routeStat(f, pathName, req, res) == routeStatted(stat(f, pathName), f, pathName, req, res)

(***************************************************************************)
(* Server Loop.                                                            *)
(***************************************************************************)
\* req.url.substring(req.url.indexOf('static')) when the index is > 0
rewriteAt(u, i) == IF i > 0 THEN Substring(u, i) ELSE u

\* the assignment to req.url in the request listener
rewriteUrl(u) == rewriteAt(u, IndexOf(u, static))

resolvePath(u) == join(root, normalize(u))

(***************************************************************************)
(* The state of the server process.                                        *)
(***************************************************************************)
VARIABLES
    alive,      \* the process runs (no uncaught exception so far)
    config,     \* the constructor's toggles
    fs,         \* the filesystem
    req,        \* req[r]: the request; url is req.url, sent the URL as received
    pathName,   \* pathName[r]: the path start() hands to routeHandler
    statPath,   \* statPath[r]: the path the pending callback of r works on
    pc,         \* pc[r]: "idle", the pending callback of r, "done" or "aborted"
    res,        \* res[r]: the response
    stream,     \* stream[r]: the stream piped to the response, if any
    range,      \* range[r]: the range rangeHandler computed for r, if it ran
    thrower     \* the request whose handler threw the uncaught exception, or 0

vars == <<alive, config, fs, req, pathName, statPath, pc, res, stream, range, thrower>>

InitWith(Cfgs, Fss) ==
    /\ alive = TRUE
    /\ config \in Cfgs
    /\ fs \in Fss
    /\ req = [r \in Reqs |-> NoReq]
    /\ pathName = [r \in Reqs |-> <<>>]
    /\ statPath = [r \in Reqs |-> <<>>]
    /\ pc = [r \in Reqs |-> "idle"]
    /\ res = [r \in Reqs |-> NewRes]
    /\ stream = [r \in Reqs |-> None]
    /\ range = [r \in Reqs |-> None]
    /\ thrower = 0

InFlight(r) == pc[r] \in {"routeStat", "respondStat", "readdir", "streaming"}

\* an exception nobody catches ends the process and with it every response
\* that has not ended
Crash(r, o) ==
    /\ alive' = FALSE
    /\ thrower' = r
    /\ pc' = [q \in Reqs |-> IF q = r \/ InFlight(q) THEN "aborted" ELSE pc[q]]
    /\ res' = [res EXCEPT ![r] = o.res]
    /\ range' = [range EXCEPT ![r] = IF o.range # None THEN o.range ELSE @]
    /\ UNCHANGED <<stream, statPath>>

\* the handler of r returned with outcome o
Apply(r, o) ==
    IF o.threw THEN Crash(r, o)
    ELSE /\ res' = [res EXCEPT ![r] = o.res]
         /\ stream' = [stream EXCEPT ![r] = o.stream]
         /\ pc' = [pc EXCEPT ![r] = o.next]
         /\ statPath' = [statPath EXCEPT ![r] = IF o.path # <<>> THEN o.path ELSE @]
         /\ range' = [range EXCEPT ![r] = IF o.range # None THEN o.range ELSE @]
         /\ UNCHANGED <<alive, thrower>>

\* Date.now() when a callback runs
Clock == {5000}

\* the request listener of start() after the assignment to req.url
Route(r, rq, pn) ==
    /\ req' = [req EXCEPT ![r] = rq]
    /\ pathName' = [pathName EXCEPT ![r] = pn]
    /\ \E o \in routeHandler(pn, rq, NewRes) : Apply(r, o)

Listener(r, in, url) == Route(r, [in EXCEPT !.url = url], resolvePath(url))

\* the request listener of start(): a request drawn from Inputs arrives
Request(r, Inputs) ==
    /\ alive
    /\ pc[r] = "idle"
    /\ \A q \in Reqs : q < r => pc[q] # "idle"
    /\ \E in \in Inputs : Listener(r, in, rewriteUrl(in.sent))
    /\ UNCHANGED <<config, fs>>

RouteStatCallback(r) ==
    /\ alive
    /\ pc[r] = "routeStat"
    /\ Apply(r, routeStat(fs, statPath[r], req[r], res[r]))
    /\ UNCHANGED <<config, fs, req, pathName>>

RespondStatCallback(r) ==
    /\ alive
    /\ pc[r] = "respondStat"
    /\ \E now \in Clock :
         \E o \in respondStat(fs, config, now, statPath[r], req[r], res[r]) : Apply(r, o)
    /\ UNCHANGED <<config, fs, req, pathName>>

ReaddirCallback(r) ==
    /\ alive
    /\ pc[r] = "readdir"
    /\ Apply(r, readdirDone(fs, statPath[r], req[r], res[r]))
    /\ UNCHANGED <<config, fs, req, pathName>>

\* the file of a stream can be opened and read
IsReadable(st) == st # None /\ st[1].kind = "file" /\ st[1].readable

Readable(f, s) == IsReadable(stat(f, s.path))

\* the bytes a stream delivers: [first, last] of its file
DeliveredOf(s, size) ==
    [kind |-> "file", path |-> s.path, enc |-> s.enc,
     first |-> IF s.ranged THEN s.start.v ELSE 0,
     last |-> IF s.ranged /\ s.end.v < size - 1 THEN s.end.v ELSE size - 1]

Delivered(f, s) == DeliveredOf(s, stat(f, s.path)[1].size)

\* the piped stream ends: pipe() ends the response
StreamEnd(r) ==
    /\ alive
    /\ pc[r] = "streaming"
    /\ Readable(fs, stream[r][1])
    /\ res' = [res EXCEPT ![r] = end(@, <<Delivered(fs, stream[r][1])>>)]
    /\ pc' = [pc EXCEPT ![r] = "done"]
    /\ UNCHANGED <<alive, config, fs, req, pathName, statPath, stream, range, thrower>>

\* the read stream emits 'error': no listener is registered, so the event is
\* thrown as an uncaught exception; pipe() does not end the response
StreamError(r) ==
    /\ alive
    /\ pc[r] = "streaming"
    /\ \/ ~Readable(fs, stream[r][1])
       \/ stream[r][1].ranged /\ ~ValidOptions(stream[r][1].start, stream[r][1].end)
    /\ Crash(r, Outcome(res[r], None, TRUE, "aborted"))
    /\ UNCHANGED <<config, fs, req, pathName>>

\* the environment removes a file
Unlink(p) ==
    /\ alive
    /\ fs[p].kind = "file"
    /\ fs' = [fs EXCEPT ![p] = NoEntry]
    /\ UNCHANGED <<alive, config, req, pathName, statPath, pc, res, stream, range, thrower>>

(***************************************************************************)
(* Filesystems and requests the specifications draw from.                  *)
(***************************************************************************)
\* www/index.html, www/static/f.js (size bytes, modified at mtime), www/d/a.png
BaseFs(size, mtime) ==
    [p \in FsPaths |->
        CASE p = pRoot -> DirEntry
          [] p = pIndex -> FileEntry(1, 1000, TRUE)
          [] p = pStatic -> DirEntry
          [] p = pFile -> FileEntry(size, mtime, TRUE)
          [] p = pDir -> DirEntry
          [] p = pPng -> FileEntry(1, 1000, TRUE)
          [] p = pLnk -> NoEntry]

\* the same without the root index page, with an unreadable f.js, with a
\* dangling link in www/d
NoIndexFs == [BaseFs(MaxSize, 1000) EXCEPT ![pIndex] = NoEntry]
UnreadableFs == [BaseFs(MaxSize, 1000) EXCEPT ![pFile] = FileEntry(MaxSize, 1000, FALSE)]
DanglingFs == [BaseFs(MaxSize, 1000) EXCEPT ![pLnk] = Dangling]

uRoot == slash
uFile == slash \o static \o slash \o fJs
uPng == slash \o dirD \o slash \o aPng
uDir == slash \o dirD
uDirSlash == slash \o dirD \o slash
uHome == slash \o homepage
uMissing == slash \o <<"x">>

Get(sent) == [NoReq EXCEPT !.sent = sent]

Digits == {<<DigitChars[i + 1]>> : i \in 0..MaxDigit}

\* 'bytes=<a>-<b>', 'bytes=-<n>' and 'bytes=<a>-'
RangeText(a, b) == bytesEq \o Radix(a, 10) \o <<"-">> \o Radix(b, 10)
SuffixText(n) == bytesEq \o <<"-">> \o Radix(n, 10)
FromText(a) == bytesEq \o Radix(a, 10) \o <<"-">>

RangeTexts == Pieced({bytesEq, <<"-">>} \cup Digits, MaxRangeLen)

RangeInputs == {[Get(uFile) EXCEPT !.range = Some(t)] : t \in RangeTexts} \cup {Get(uFile)}

Urls == {slash \o u : u \in Pieced({slash, dotdot, static, dirD}, MaxUrlLen)}

PathInputs == {Get(u) : u \in Urls}

(***************************************************************************)
(* SpecRange: one request for www/static/f.js, of every size, with every   *)
(* Range header.                                                           *)
(***************************************************************************)
InitRange == InitWith({AllOn}, {BaseFs(size, 1000) : size \in 0..MaxSize})

NextRange ==
    \/ Request(1, RangeInputs)
    \/ RouteStatCallback(1)
    \/ RespondStatCallback(1)
    \/ StreamEnd(1)
    \/ StreamError(1)

SpecRange == InitRange /\ [][NextRange]_vars

(***************************************************************************)
(* SpecPath: one request with every URL, no request headers.               *)
(***************************************************************************)
InitPath == InitWith({AllOn}, {BaseFs(1, 1000)})

NextPath ==
    \/ Request(1, PathInputs)
    \/ RouteStatCallback(1)
    \/ RespondStatCallback(1)
    \/ ReaddirCallback(1)
    \/ StreamEnd(1)

SpecPath == InitPath /\ [][NextPath]_vars

(***************************************************************************)
(* Claims on the Range Calculator and the range branch of respondFile      *)
(* (SpecRange).                                                            *)
(***************************************************************************)
\* the size of the file the pending or finished callback of r worked on
SizeOf(r) == stat(fs, statPath[r])[1].size

\* numbers a Range header of the model can spell
Spelled == 0..(10 * MaxDigit + MaxDigit)

\* rangeHandler ran for r and getRange returned
RangeComputed(r) == range[r] # None

RangeIs(r, start, end_) == range[r] = Some([start |-> Num(start), end |-> Num(end_)])

InBounds(rg, size) ==
    /\ ~isNaN(rg.start) /\ ~isNaN(rg.end)
    /\ 0 <= rg.start.v /\ rg.start.v <= rg.end.v /\ rg.end.v < size

Rejected416(r) ==
    /\ res[r].statusCode = 416
    /\ res[r].headers.contentRange =
           Some(<<"b", "y", "t", "e", "s", " ", "*", "/">> \o Radix(SizeOf(r), 10))
    /\ res[r].body = <<>>
    /\ res[r].ended
    /\ stream[r] = None

\* C1: a request with a Range header gets a 206 and a stream only if the
\* computed range satisfies 0 <= start <= end < totalSize; in every other
\* case it gets 416 with Content-Range 'bytes */<totalSize>', an empty body
\* and no stream.
C1_RangeValidated ==
    \A r \in Reqs :
        RangeComputed(r) =>
            IF InBounds(range[r][1], SizeOf(r))
            THEN TRUE
            ELSE Rejected416(r)

\* C2: for 'bytes=<a>-<b>' with 0 <= a <= b < size the response has status
\* 206 and Content-Range 'bytes a-b/size', and the stream opened covers
\* exactly the bytes a to b of the file.
C2_ValidRangeServed ==
    \A r \in Reqs : \A a, b \in 0..MaxSize :
        (/\ RangeComputed(r)
         /\ req[r].range = Some(RangeText(a, b))
         /\ a <= b /\ b < SizeOf(r)) =>
            /\ res[r].statusCode = 206
            /\ res[r].headers.contentRange =
                   Some(<<"b", "y", "t", "e", "s", " ">> \o Radix(a, 10) \o <<"-">>
                        \o Radix(b, 10) \o <<"/">> \o Radix(SizeOf(r), 10))
            /\ stream[r] = Some(Ranged(statPath[r], Num(a), Num(b)))
            /\ (pc[r] = "done" =>
                    res[r].body = <<[kind |-> "file", path |-> statPath[r],
                                     enc |-> "identity", first |-> a, last |-> b]>>)

\* a 2-byte file was asked for 'bytes=0-1' and the transfer finished
C2_Witness ==
    /\ req[1].range = Some(RangeText(0, 1))
    /\ RangeComputed(1)
    /\ SizeOf(1) = 2
    /\ pc[1] = "done"

\* C3: getRange resolves 'bytes=-<n>' with 0 < n <= totalSize to
\* {totalSize - n, totalSize - 1}, 'bytes=<a>-' to {a, totalSize - 1}, and
\* 'bytes=<a>-<b>' to {a, b}.
C3_GetRangeResolves ==
    \A r \in Reqs :
        RangeComputed(r) =>
            /\ \A n \in Spelled :
                 (req[r].range = Some(SuffixText(n)) /\ 0 < n /\ n <= SizeOf(r))
                     => RangeIs(r, SizeOf(r) - n, SizeOf(r) - 1)
            /\ \A a \in Spelled :
                 req[r].range = Some(FromText(a)) => RangeIs(r, a, SizeOf(r) - 1)
            /\ \A a, b \in Spelled :
                 req[r].range = Some(RangeText(a, b)) => RangeIs(r, a, b)

\* the last byte of a 2-byte file was asked for as 'bytes=-1'
C3_Witness ==
    /\ req[1].range = Some(SuffixText(1))
    /\ SizeOf(1) = 2
    /\ RangeIs(1, 1, 1)

(***************************************************************************)
(* Claims on the Server Loop and the Path Router (SpecPath).               *)
(***************************************************************************)
\* the path is the root directory or lies below it
UnderRoot(p) ==
    \/ p = root
    \/ Len(p) > Len(root) /\ SubSeq(p, 1, Len(root) + 1) = root \o slash

IsDir(st) == st # None /\ st[1].kind = "dir"

\* C5: a request whose resolved path is an existing directory and whose URL
\* pathname has no trailing slash is answered 301 with Location equal to
\* the URL as the client sent it plus '/', rewritten URLs included.
C5_RedirectToSentUrl ==
    \A r \in Reqs :
        (/\ pc[r] = "done"
         /\ IsDir(stat(fs, pathName[r]))
         /\ ~hasTrailingSlash(pathnameOf(req[r].sent))) =>
            /\ res[r].statusCode = 301
            /\ res[r].headers.location = Some(req[r].sent \o slash)

\* C8: the path start() hands to routeHandler lies under the root
\* directory, for every request URL.
C8_PathUnderRoot ==
    \A r \in Reqs : pc[r] # "idle" => UnderRoot(pathName[r])

(***************************************************************************)
(* SpecFresh: one request for www/static/f.js under every configuration,   *)
(* with every combination of conditional headers.                          *)
(***************************************************************************)
\* modification times: two within the same second, one in the next
Mtimes == {1000, 1500, 2000}

\* what a client may hold from earlier responses: nothing, an empty header,
\* or the validators of some state of the file
ETagValues ==
    {None, Some(<<>>)} \cup {Some(generateETag(FileEntry(1, m, TRUE))) : m \in Mtimes}

DateValues == {None, Some(<<>>)} \cup {Some(toUTCString(m)) : m \in Mtimes}

FreshInputs ==
    {[Get(uFile) EXCEPT !.ifNoneMatch = inm, !.ifModifiedSince = ims] :
        inm \in ETagValues, ims \in DateValues}

InitFresh == InitWith(Configs, {BaseFs(1, 1000), BaseFs(1, 1500)})

NextFresh ==
    \/ Request(1, FreshInputs)
    \/ RouteStatCallback(1)
    \/ RespondStatCallback(1)
    \/ StreamEnd(1)

SpecFresh == InitFresh /\ [][NextFresh]_vars

\* the callback of respond() ran for r and fs.stat succeeded
Responded(r) == pc[r] \in {"streaming", "done"} /\ stat(fs, statPath[r]) # None

NotModified(r) ==
    /\ res[r].statusCode = 304
    /\ res[r].ended
    /\ res[r].body = <<>>
    /\ res[r].headers.contentType = None
    /\ stream[r] = None

\* respondFile took the request: it set Content-Type and piped a stream
HandedToRespondFile(r) ==
    /\ res[r].statusCode # 304
    /\ res[r].headers.contentType # None
    /\ stream[r] # None

\* every conditional header of the request equals the current validator
KnownFresh(r, st) ==
    /\ req[r].ifNoneMatch # None \/ req[r].ifModifiedSince # None
    /\ req[r].ifNoneMatch # None => req[r].ifNoneMatch = Some(generateETag(st))
    /\ req[r].ifModifiedSince # None =>
           req[r].ifModifiedSince = Some(toUTCString(st.mtime))

\* the same, for the headers that are not empty and whose validator the
\* configuration has the server send
KnownFreshEnabled(r, st) ==
    /\ Truthy(req[r].ifNoneMatch) \/ Truthy(req[r].ifModifiedSince)
    /\ Truthy(req[r].ifNoneMatch) =>
           config.enableETag /\ req[r].ifNoneMatch = Some(generateETag(st))
    /\ Truthy(req[r].ifModifiedSince) =>
           /\ config.enableLastModified
           /\ req[r].ifModifiedSince = Some(toUTCString(st.mtime))

\* C4: under every configuration, a request whose conditional
\* headers are all equal to the current ETag / Last-Modified gets 304, an
\* empty body and no Content-Type; any other request is never answered 304
\* and is handed to respondFile.
C4_FreshAsStated ==
    \A r \in Reqs :
        Responded(r) =>
            IF KnownFresh(r, stat(fs, statPath[r])[1])
            THEN NotModified(r)
            ELSE HandedToRespondFile(r)

\* C4, validators enabled: the request gets 304, an empty body and no
\* Content-Type when at least one conditional header is non-empty and every
\* non-empty one
\* has its validator enabled and equals the current ETag / Last-Modified;
\* any other request is never answered 304 and is handed to respondFile.
C4_FreshWhenEnabled ==
    \A r \in Reqs :
        Responded(r) =>
            IF KnownFreshEnabled(r, stat(fs, statPath[r])[1])
            THEN NotModified(r)
            ELSE HandedToRespondFile(r)

\* both validators were sent, both matched, and the answer was 304
C4_Witness ==
    /\ Truthy(req[1].ifNoneMatch) /\ Truthy(req[1].ifModifiedSince)
    /\ pc[1] = "done"
    /\ KnownFreshEnabled(1, stat(fs, statPath[1])[1])
    /\ res[1].statusCode = 304

(***************************************************************************)
(* SpecEnc: one request for a compressible or another file, with every     *)
(* Accept-Encoding header, with and without a Range header.                *)
(***************************************************************************)
EncTexts == Pieced({gzip, deflate, <<",">>, <<" ">>, <<"x">>}, MaxEncLen)

EncInputs ==
    {[Get(u) EXCEPT !.acceptEncoding = ae, !.range = rg] :
        u \in {uFile, uPng},
        ae \in {None} \cup {Some(t) : t \in EncTexts},
        rg \in {None, Some(RangeText(0, 0))}}

InitEnc == InitWith({AllOn}, {BaseFs(1, 1000)})

NextEnc ==
    \/ Request(1, EncInputs)
    \/ RouteStatCallback(1)
    \/ RespondStatCallback(1)
    \/ StreamEnd(1)

SpecEnc == InitEnc /\ [][NextEnc]_vars

\* the codings an Accept-Encoding header lists: its pieces between commas
\* and spaces
RECURSIVE Codings(_, _)
Codings(text, cur) ==
    IF text = <<>> THEN {cur}
    ELSE IF Head(text) \in {",", " "} THEN {cur} \cup Codings(Tail(text), <<>>)
    ELSE Codings(Tail(text), Append(cur, Head(text)))

Offers(h, coding) == h # None /\ coding \in Codings(h[1], <<>>)

Encoded(r, coding) ==
    /\ stream[r][1].enc = coding
    /\ res[r].headers.contentEncoding = Some(coding)

PassedThrough(r) ==
    /\ stream[r][1].enc = "identity"
    /\ res[r].headers.contentEncoding = None

\* the extensions of the compressible pattern
Compressible(p) == extname(p) \in zipMatch

\* C10: for a compressible file the stream is gzip-encoded when
\* Accept-Encoding offers gzip, else deflate-encoded when it offers deflate,
\* else passed through with no Content-Encoding; for any other file no
\* Content-Encoding is set; in every case a stream is returned and piped.
C10_EncodingChosen ==
    \A r \in Reqs :
        pc[r] \in {"streaming", "done", "aborted"} =>
            /\ stream[r] # None
            /\ thrower = 0
            /\ IF Compressible(stream[r][1].path)
               THEN IF Offers(req[r].acceptEncoding, gzip) THEN Encoded(r, "gzip")
                    ELSE IF Offers(req[r].acceptEncoding, deflate)
                    THEN Encoded(r, "deflate")
                    ELSE PassedThrough(r)
               ELSE PassedThrough(r)

\* 'deflate,gzip' was sent for f.js and the body went out gzip-encoded
C10_Witness ==
    /\ req[1].acceptEncoding = Some(deflate \o <<",">> \o gzip)
    /\ pc[1] = "done"
    /\ Compressible(stream[1][1].path)
    /\ res[1].body[1].enc = "gzip"

(***************************************************************************)
(* Spec: NumReqs requests in flight together, in every interleaving of     *)
(* their callbacks, over filesystems with a missing index page, an         *)
(* unreadable file, a dangling link, and files that are removed meanwhile. *)
(***************************************************************************)
MixUrls == {uRoot, uFile, uDir, uDirSlash, uHome, uMissing}

MixRanges == {None, Some(RangeText(0, 0)), Some(<<"x">>)}

MixInputs == {[Get(u) EXCEPT !.range = rg] : u \in MixUrls, rg \in MixRanges}

Init == InitWith({AllOn}, {BaseFs(MaxSize, 1000), NoIndexFs, UnreadableFs, DanglingFs})

Next ==
    \/ \E r \in Reqs : Request(r, MixInputs)
    \/ \E r \in Reqs : RouteStatCallback(r)
    \/ \E r \in Reqs : RespondStatCallback(r)
    \/ \E r \in Reqs : ReaddirCallback(r)
    \/ \E r \in Reqs : StreamEnd(r)
    \/ \E r \in Reqs : StreamError(r)
    \/ Unlink(pFile)

Spec == Init /\ [][Next]_vars

\* the response carries the bytes of the root index page
ServedRootIndex(r) ==
    /\ res[r].ended
    /\ res[r].statusCode \in {200, 206}
    /\ res[r].body # <<>>
    /\ res[r].body[1].kind = "file"
    /\ res[r].body[1].path = join(root, indexPage)

\* C6: a request whose resolved path contains 'article/' or 'homepage' is
\* served the root index page whatever its headers and whether or not the
\* path exists: its handling never ends without that response.
C6_SpaServed ==
    \A r \in Reqs :
        (pc[r] # "idle" /\ isSpa(pathName[r])) =>
            /\ thrower # r
            /\ pc[r] = "done" => ServedRootIndex(r)

\* C7: an error raised while handling one request is confined to that
\* request: no other request loses its response, and the server keeps
\* accepting requests.
C7_ErrorsConfined ==
    \A r, q \in Reqs :
        (thrower = r /\ q # r /\ pc[q] # "idle") =>
            /\ pc[q] # "aborted"
            /\ alive

\* C9: once respondFile has piped a stream for a request, the end of the
\* stream and an error on it both end the response.
C9_StreamEndsResponse ==
    \A r \in Reqs :
        (stream[r] # None /\ ~InFlight(r) /\ thrower \in {0, r}) => res[r].ended

====
